---- MODULE Spec2Model ----
(***************************************************************************)
(* FizzAcceptorHandshakeHelper (wangle/acceptor): the helper that runs a   *)
(* Fizz (TLS 1.3) handshake on an accepted socket and, when the Fizz       *)
(* server asks for it, falls back to an OpenSSL handshake on the same      *)
(* descriptor, replaying the bytes Fizz has already read.                  *)
(*                                                                         *)
(* The helper runs on one EventBase thread.  Every handler is a sequence   *)
(* of steps that runs to completion: while pc # "idle" only the next step  *)
(* of the running handler is enabled.  The two engines (AsyncFizzServer,   *)
(* folly::AsyncSSLSocket) and the Callback are the environment: an engine  *)
(* that has been started reads the client's bytes and delivers one         *)
(* notification, at any time; the Fizz server may instead ask once for a   *)
(* fallback, after it has read at least one byte.  A notification that an  *)
(* engine delivers from inside accept() or sslAccept() reaches the helper  *)
(* when that call is the handler's last statement, so it is modelled as    *)
(* delivered right after the handler.                                      *)
(***************************************************************************)
EXTENDS Integers, Sequences, FiniteSets

\* ---------------------------------------------------------------- bounds
MaxWire == 2        \* bytes the client sends during the handshake
MaxTime == 3        \* steady_clock ticks the model lets pass
MaxAcceptTick == 1  \* latest tick at which the connection was accepted
MaxFd == 2          \* descriptor values a socket may have

\* duration_cast<milliseconds>: clock ticks per millisecond (scaled down)
TicksPerMs == 2

Bytes == {22, 3}
Fds == 3..(2 + MaxFd)
\* NetworkSocket(): the value a socket object holds once it owns no descriptor
NoFd == -1
NoValue == "none"
\* folly::Optional / a null pointer: None or Some(v)
None == <<>>
Some(v) == <<v>>
NO_ERROR == "NO_ERROR"

\* what getSecurityProtocol() answers on each engine
ModernProto == "Fizz"
ClassicProto == "TLS"
KeyParams == {2}
Snis == {"sni"}

\* the objects that can hold the descriptor
Holders == {"sock", "modern", "local", "classic"}

VARIABLES
  pc,            \* position of the running handler, "idle" between handlers
  alive,         \* the helper has not been deleted
  uaf,           \* a step touched a member of a deleted helper
  callback_, sslContext_, extension_, transport_, sslSocket_, tinfo_,
  acceptTime_, sslError_, tokenBindingContext_, loggingCallback_,
  fd,            \* local of fizzHandshakeAttemptFallback
  clientHello,   \* parameter of fizzHandshakeAttemptFallback
  ex,            \* local handshakeException / sslEx of the error handlers
  now,           \* steady_clock
  wire,          \* the bytes the client sends, in order
  rd,            \* how many bytes of wire have been read off the descriptor
  fdOf,          \* holder -> descriptor it owns, or NoFd
  closed,        \* descriptors that have been closed
  modern,        \* AsyncFizzServer: "none", "accepting", "notified", "destroyed"
  classic,       \* AsyncSSLSocket built at fallback: same values
  modernRaw,     \* AsyncFizzServer::getRawBytesReceived()
  preReceived,   \* AsyncSSLSocket::preReceivedData_
  classicIn,     \* the bytes the OpenSSL engine has consumed, in order
  handed,        \* the transport connectionReady received
  cb,            \* what the Callback has seen
  calls,         \* the calls the helper made on its collaborators, in order
  hist           \* facts of the run the properties refer to

helperVars == <<callback_, sslContext_, extension_, transport_, sslSocket_, tinfo_,
                acceptTime_, sslError_, tokenBindingContext_, loggingCallback_>>
engineVars == <<wire, rd, fdOf, closed, modern, classic, modernRaw, preReceived,
                classicIn>>
localVars == <<fd, clientHello, ex>>
vars == <<pc, alive, uaf, helperVars, localVars, now, engineVars, handed, cb,
          calls, hist>>

EmptyTinfo ==
  [acceptTime |-> None, secure |-> FALSE, securityType |-> NoValue,
   sslSetupTime |-> None, negotiatedTokenBindingKeyParameters |-> None,
   sslServerName |-> None]

EmptyCb == [ready |-> 0, error |-> 0, ex |-> None, tinfo |-> None]

EmptyHist ==
  [sockFd |-> NoFd, modernFd |-> NoFd, reported |-> NoValue, hello |-> None,
   fallbackAt |-> None, notifiedAt |-> None, keyParam |-> None, sni |-> None]

\* duration_cast<std::chrono::milliseconds>: truncation toward zero
ToMillis(d) == IF d >= 0 THEN d \div TicksPerMs ELSE -((-d) \div TicksPerMs)

\* every access to a member of the helper; reaching one after `delete this`
\* is a use of freed memory
Touch == uaf' = (uaf \/ ~alive)

Init ==
  /\ pc = "idle"
  /\ alive = TRUE
  /\ uaf = FALSE
  /\ callback_ = NoValue
  /\ sslContext_ = NoValue
  /\ extension_ = NoValue
  /\ transport_ = NoValue
  /\ sslSocket_ = NoValue
  /\ tinfo_ = EmptyTinfo
  /\ acceptTime_ \in 0..MaxAcceptTick
  /\ now = acceptTime_
  /\ sslError_ = NO_ERROR
  /\ tokenBindingContext_ \in BOOLEAN
  /\ loggingCallback_ \in BOOLEAN
  /\ fd = NoFd
  /\ clientHello = None
  /\ ex = None
  /\ wire \in [1..MaxWire -> Bytes]
  /\ rd = 0
  /\ \E f \in Fds : fdOf = [h \in Holders |-> IF h = "sock" THEN f ELSE NoFd]
  /\ closed = {}
  /\ modern = "none"
  /\ classic = "none"
  /\ modernRaw = 0
  /\ preReceived = None
  /\ classicIn = <<>>
  /\ handed = NoValue
  /\ cb = EmptyCb
  /\ calls = <<>>
  /\ hist = EmptyHist

\* steady_clock advances between handlers
Tick ==
  /\ pc = "idle"
  /\ now < MaxTime
  /\ now' = now + 1
  /\ UNCHANGED <<pc, alive, uaf, helperVars, localVars, engineVars, handed, cb,
                 calls, hist>>

\* variant of createFizzServer: the accepted socket keeps the descriptor it gave
createFizzServer_aliased(owners) ==
  [owners EXCEPT !["modern"] = owners["sock"]]

\* createFizzServer: the descriptor moves out of the accepted AsyncSSLSocket
\* into a new AsyncSocket, which the new AsyncFizzServer owns
createFizzServer(owners) ==
  [owners EXCEPT !["modern"] = owners["sock"], !["sock"] = NoFd]

\* variant of start: a TokenBindingServerExtension is made with or without a
\* tokenBindingContext_
start_alwaysExtension ==
  /\ pc = "idle"
  /\ alive
  /\ callback_ = NoValue
  /\ modern = "none"
  /\ callback_' = "callback"
  /\ sslContext_' = "sslContext"
  /\ extension_' = "extension"
  /\ fdOf' = createFizzServer(fdOf)
  /\ transport_' = "fizz"
  /\ modern' = "accepting"
  /\ calls' = calls \o <<"accept">>
  /\ hist' = [hist EXCEPT !.sockFd = fdOf["sock"]]
  /\ Touch
  /\ UNCHANGED <<pc, alive, sslSocket_, tinfo_, acceptTime_, sslError_,
                 tokenBindingContext_, loggingCallback_, localVars, now, wire,
                 rd, closed, classic, modernRaw, preReceived, classicIn, handed, cb>>

\* variant of start: the AsyncFizzServer is built but accept(this) is not called
start_notAccepting ==
  /\ pc = "idle"
  /\ alive
  /\ callback_ = NoValue
  /\ modern = "none"
  /\ callback_' = "callback"
  /\ sslContext_' = "sslContext"
  /\ extension_' = IF tokenBindingContext_ THEN "extension" ELSE extension_
  /\ fdOf' = createFizzServer(fdOf)
  /\ transport_' = "fizz"
  /\ modern' = "notified"
  /\ hist' = [hist EXCEPT !.sockFd = fdOf["sock"]]
  /\ Touch
  /\ UNCHANGED <<pc, alive, sslSocket_, tinfo_, acceptTime_, sslError_,
                 tokenBindingContext_, loggingCallback_, localVars, now, wire,
                 rd, closed, classic, modernRaw, preReceived, classicIn, handed, cb,
                 calls>>

\* variant of start: the new AsyncFizzServer is released instead of being kept
\* in transport_
start_transportNotKept ==
  /\ pc = "idle"
  /\ alive
  /\ callback_ = NoValue
  /\ modern = "none"
  /\ callback_' = "callback"
  /\ sslContext_' = "sslContext"
  /\ extension_' = IF tokenBindingContext_ THEN "extension" ELSE extension_
  /\ fdOf' = createFizzServer(fdOf)
  /\ modern' = "accepting"
  /\ calls' = calls \o <<"accept">>
  /\ hist' = [hist EXCEPT !.sockFd = fdOf["sock"]]
  /\ Touch
  /\ UNCHANGED <<pc, alive, transport_, sslSocket_, tinfo_, acceptTime_, sslError_,
                 tokenBindingContext_, loggingCallback_, localVars, now, wire,
                 rd, closed, classic, modernRaw, preReceived, classicIn, handed, cb>>

start ==
  /\ pc = "idle"
  /\ alive
  /\ callback_ = NoValue
  /\ modern = "none"
  /\ callback_' = "callback"
  /\ sslContext_' = "sslContext"
  /\ extension_' = IF tokenBindingContext_ THEN "extension" ELSE extension_
  /\ fdOf' = createFizzServer(fdOf)
  /\ transport_' = "fizz"
  /\ modern' = "accepting"
  /\ calls' = calls \o <<"accept">>
  /\ hist' = [hist EXCEPT !.sockFd = fdOf["sock"]]
  /\ Touch
  /\ UNCHANGED <<pc, alive, sslSocket_, tinfo_, acceptTime_, sslError_,
                 tokenBindingContext_, loggingCallback_, localVars, now, wire,
                 rd, closed, classic, modernRaw, preReceived, classicIn, handed, cb>>

\* AsyncFizzServer reads the next byte the client sent
ModernRead ==
  /\ pc = "idle"
  /\ modern = "accepting"
  /\ fdOf["modern"] # NoFd
  /\ rd < MaxWire
  /\ rd' = rd + 1
  /\ modernRaw' = modernRaw + 1
  /\ UNCHANGED <<pc, alive, uaf, helperVars, localVars, now, wire, fdOf, closed,
                 modern, classic, preReceived, classicIn, handed, cb, calls, hist>>

\* AsyncSSLSocket::bioRead: the engine takes the pre-received data first and
\* reads the descriptor only when none is left; BIO_number_read counts both
ClassicRead ==
  /\ pc = "idle"
  /\ classic = "accepting"
  /\ IF preReceived # None
       THEN /\ classicIn' = Append(classicIn, Head(preReceived[1]))
            /\ preReceived' = IF Len(preReceived[1]) = 1 THEN None
                              ELSE Some(Tail(preReceived[1]))
            /\ rd' = rd
       ELSE /\ fdOf["classic"] # NoFd
            /\ fdOf["classic"] \notin closed
            /\ rd < MaxWire
            /\ classicIn' = Append(classicIn, wire[rd + 1])
            /\ rd' = rd + 1
            /\ preReceived' = preReceived
  /\ UNCHANGED <<pc, alive, uaf, helperVars, localVars, now, wire, fdOf, closed,
                 modern, classic, modernRaw, handed, cb, calls, hist>>

\* getRawBytesReceived() of the engine a handler is handed
getRawBytesReceived(engine) ==
  IF engine = "fizz" THEN modernRaw ELSE Len(classicIn)

\* getSecurityProtocol() of the engine a handler is handed
getSecurityProtocol(engine) ==
  IF engine = "fizz" THEN ModernProto ELSE ClassicProto

\* the engines a deleted helper still owns die with it, closing what they hold
DeleteHelper(tr, ss) ==
  LET dead == {h \in {"modern", "classic"} :
                 \/ h = "modern" /\ tr = "fizz"
                 \/ h = "classic" /\ ss = "ssl"}
  IN /\ alive' = FALSE
     /\ fdOf' = [h \in Holders |-> IF h \in dead THEN NoFd ELSE fdOf[h]]
     /\ closed' = closed \cup {fdOf[h] : h \in {k \in dead : fdOf[k] # NoFd}}
     /\ modern' = IF "modern" \in dead THEN "destroyed" ELSE modern
     /\ classic' = IF "classic" \in dead THEN "destroyed" ELSE classic

\* what the Callback does with the helper while it runs: it may delete it
CallbackRuns(tr, ss) ==
  \/ DeleteHelper(tr, ss)
  \/ UNCHANGED <<alive, fdOf, closed, modern, classic>>

\* the owner deletes the helper between two handlers, at any time after start()
Destroy ==
  /\ pc = "idle"
  /\ alive
  /\ callback_ # NoValue
  /\ DeleteHelper(transport_, sslSocket_)
  /\ UNCHANGED <<pc, uaf, helperVars, localVars, now, wire, rd, modernRaw,
                 preReceived, classicIn, handed, cb, calls, hist>>

\* ------------------------------------------------ fizzHandshakeSuccess
\* entry, and the logging callback when one is set
fizzHandshakeSuccess ==
  /\ pc = "idle"
  /\ modern = "accepting"
  /\ modern' = "notified"
  /\ hist' = [hist EXCEPT !.reported = "fizzHandshakeSuccess",
                          !.notifiedAt = Some(now)]
  /\ calls' = IF loggingCallback_ THEN calls \o <<"logFizzHandshakeSuccess">>
              ELSE calls
  /\ Touch
  /\ pc' = "fizzHandshakeSuccess_tinfo"
  /\ UNCHANGED <<alive, helperVars, localVars, now, wire, rd, fdOf, closed, classic,
                 modernRaw, preReceived, classicIn, handed, cb>>

\* tinfo_ is filled from the AsyncFizzServer that reported; keyParam is what
\* the extension, when there is one, negotiated, and sni what the handshake
\* log holds
fizzHandshakeSuccess_tinfo ==
  /\ pc = "fizzHandshakeSuccess_tinfo"
  /\ \E keyParam \in {None} \cup
                     (IF extension_ # NoValue THEN {Some(k) : k \in KeyParams}
                      ELSE {}),
        sni \in {None} \cup {Some(n) : n \in Snis} :
       /\ tinfo_' =
            [acceptTime |-> Some(acceptTime_),
             secure |-> TRUE,
             securityType |-> getSecurityProtocol("fizz"),
             sslSetupTime |-> Some(ToMillis(now - acceptTime_)),
             negotiatedTokenBindingKeyParameters |->
               IF extension_ # NoValue /\ keyParam # None
                 THEN Some(keyParam[1] % 256)
                 ELSE tinfo_.negotiatedTokenBindingKeyParameters,
             sslServerName |-> IF sni # None THEN sni ELSE tinfo_.sslServerName]
       /\ hist' = [hist EXCEPT !.keyParam = keyParam, !.sni = sni]
  /\ Touch
  /\ pc' = "fizzHandshakeSuccess_ready"
  /\ UNCHANGED <<alive, callback_, sslContext_, extension_, transport_, sslSocket_,
                 acceptTime_, sslError_, tokenBindingContext_, loggingCallback_,
                 localVars, now, engineVars, handed, cb, calls>>

\* variant of fizzHandshakeSuccess_ready: the callback gets transport_.get()
fizzHandshakeSuccess_ready_notMoved ==
  /\ pc = "fizzHandshakeSuccess_ready"
  /\ Touch
  /\ handed' = transport_
  /\ cb' = [cb EXCEPT !.ready = @ + 1, !.tinfo = Some(tinfo_)]
  /\ calls' = calls \o <<"connectionReady">>
  /\ CallbackRuns(transport_, sslSocket_)
  /\ pc' = "idle"
  /\ UNCHANGED <<helperVars, localVars, now, wire, rd, modernRaw, preReceived,
                 classicIn, hist>>

\* variant of fizzHandshakeSuccess_ready: a member is read after the callback
fizzHandshakeSuccess_ready_thenTouch ==
  /\ pc = "fizzHandshakeSuccess_ready"
  /\ transport_' = NoValue
  /\ handed' = transport_
  /\ cb' = [cb EXCEPT !.ready = @ + 1, !.tinfo = Some(tinfo_)]
  /\ calls' = calls \o <<"connectionReady">>
  /\ CallbackRuns(NoValue, sslSocket_)
  /\ uaf' = (uaf \/ ~alive')
  /\ pc' = "idle"
  /\ UNCHANGED <<callback_, sslContext_, extension_, sslSocket_, tinfo_, acceptTime_,
                 sslError_, tokenBindingContext_, loggingCallback_, localVars, now,
                 wire, rd, modernRaw, preReceived, classicIn, hist>>

\* callback_->connectionReady(std::move(transport_), ...): the last statement
fizzHandshakeSuccess_ready ==
  /\ pc = "fizzHandshakeSuccess_ready"
  /\ Touch
  /\ transport_' = NoValue
  /\ handed' = transport_
  /\ cb' = [cb EXCEPT !.ready = @ + 1, !.tinfo = Some(tinfo_)]
  /\ calls' = calls \o <<"connectionReady">>
  /\ CallbackRuns(NoValue, sslSocket_)
  /\ pc' = "idle"
  /\ UNCHANGED <<callback_, sslContext_, extension_, sslSocket_, tinfo_, acceptTime_,
                 sslError_, tokenBindingContext_, loggingCallback_, localVars, now,
                 wire, rd, modernRaw, preReceived, classicIn, hist>>

\* variant of fizzHandshakeError: a Fizz error is answered by trying OpenSSL
fizzHandshakeError_triesClassic ==
  /\ pc = "idle"
  /\ modern = "accepting"
  /\ modern' = "notified"
  /\ hist' = [hist EXCEPT !.reported = "fizzHandshakeError",
                          !.notifiedAt = Some(now)]
  /\ calls' = calls \o <<"detachNetworkSocket">>
  /\ fd' = fdOf["modern"]
  /\ fdOf' = [fdOf EXCEPT !["local"] = fdOf["modern"], !["modern"] = NoFd]
  /\ Touch
  /\ pc' = "fizzHandshakeAttemptFallback_reset"
  /\ UNCHANGED <<alive, helperVars, clientHello, ex, now, wire, rd, closed, classic,
                 modernRaw, preReceived, classicIn, handed, cb>>

\* variant of fizzHandshakeError: with a logging callback set the handler only
\* logs
fizzHandshakeError_logOnly ==
  /\ pc = "idle"
  /\ modern = "accepting"
  /\ modern' = "notified"
  /\ hist' = [hist EXCEPT !.reported = "fizzHandshakeError",
                          !.notifiedAt = Some(now)]
  /\ calls' = IF loggingCallback_ THEN calls \o <<"logFizzHandshakeError">>
              ELSE calls
  /\ Touch
  /\ pc' = IF loggingCallback_ THEN "idle" ELSE "fizzHandshakeError_wrap"
  /\ UNCHANGED <<alive, helperVars, localVars, now, wire, rd, fdOf, closed, classic,
                 modernRaw, preReceived, classicIn, handed, cb>>

\* -------------------------------------------------- fizzHandshakeError
\* entry, and the logging callback when one is set
fizzHandshakeError ==
  /\ pc = "idle"
  /\ modern = "accepting"
  /\ modern' = "notified"
  /\ hist' = [hist EXCEPT !.reported = "fizzHandshakeError",
                          !.notifiedAt = Some(now)]
  /\ calls' = IF loggingCallback_ THEN calls \o <<"logFizzHandshakeError">>
              ELSE calls
  /\ Touch
  /\ pc' = "fizzHandshakeError_wrap"
  /\ UNCHANGED <<alive, helperVars, localVars, now, wire, rd, fdOf, closed, classic,
                 modernRaw, preReceived, classicIn, handed, cb>>

\* variant of fizzHandshakeError_wrap: the error is wrapped as an SSLException
fizzHandshakeError_wrap_asSSLException ==
  /\ pc = "fizzHandshakeError_wrap"
  /\ ex' = Some([type |-> "SSLException",
                 sslError |-> sslError_,
                 elapsedTime |-> ToMillis(now - acceptTime_),
                 bytesReceived |-> getRawBytesReceived("fizz")])
  /\ Touch
  /\ pc' = "fizzHandshakeError_error"
  /\ UNCHANGED <<alive, helperVars, fd, clientHello, now, engineVars, handed, cb,
                 calls, hist>>

\* elapsedTime and the FizzHandshakeException built from it
fizzHandshakeError_wrap ==
  /\ pc = "fizzHandshakeError_wrap"
  /\ ex' = Some([type |-> "FizzHandshakeException",
                 sslError |-> sslError_,
                 elapsedTime |-> ToMillis(now - acceptTime_),
                 bytesReceived |-> getRawBytesReceived("fizz")])
  /\ Touch
  /\ pc' = "fizzHandshakeError_error"
  /\ UNCHANGED <<alive, helperVars, fd, clientHello, now, engineVars, handed, cb,
                 calls, hist>>

\* variant of fizzHandshakeError_error: the logging callback is told afterwards
fizzHandshakeError_error_thenLogs ==
  /\ pc = "fizzHandshakeError_error"
  /\ Touch
  /\ cb' = [cb EXCEPT !.error = @ + 1, !.ex = ex]
  /\ ex' = None
  /\ calls' = calls \o <<"connectionError">> \o
                (IF loggingCallback_ THEN <<"logFizzHandshakeError">> ELSE <<>>)
  /\ CallbackRuns(transport_, sslSocket_)
  /\ pc' = "idle"
  /\ UNCHANGED <<helperVars, fd, clientHello, now, wire, rd, modernRaw, preReceived,
                 classicIn, handed, hist>>

\* variant of fizzHandshakeError_error: the error path also marks tinfo_
fizzHandshakeError_error_writesTinfo ==
  /\ pc = "fizzHandshakeError_error"
  /\ Touch
  /\ cb' = [cb EXCEPT !.error = @ + 1, !.ex = ex]
  /\ ex' = None
  /\ calls' = calls \o <<"connectionError">>
  /\ CallbackRuns(transport_, sslSocket_)
  /\ tinfo_' = [tinfo_ EXCEPT !.acceptTime = Some(acceptTime_)]
  /\ pc' = "idle"
  /\ UNCHANGED <<callback_, sslContext_, extension_, transport_, sslSocket_,
                 acceptTime_, sslError_, tokenBindingContext_, loggingCallback_, fd,
                 clientHello, now, wire, rd, modernRaw, preReceived, classicIn, handed,
                 hist>>

\* callback_->connectionError(transport_.get(), ...): the last statement
fizzHandshakeError_error ==
  /\ pc = "fizzHandshakeError_error"
  /\ Touch
  /\ cb' = [cb EXCEPT !.error = @ + 1, !.ex = ex]
  /\ ex' = None
  /\ calls' = calls \o <<"connectionError">>
  /\ CallbackRuns(transport_, sslSocket_)
  /\ pc' = "idle"
  /\ UNCHANGED <<helperVars, fd, clientHello, now, wire, rd, modernRaw, preReceived,
                 classicIn, handed, hist>>

\* ------------------------------------ fizzHandshakeAttemptFallback
\* createSSLSocket: a new AsyncSSLSocket owns the descriptor it is given
createSSLSocket(owners, fdArg) ==
  [owners EXCEPT !["classic"] = fdArg, !["local"] = NoFd]

\* variant of fizzHandshakeAttemptFallback: the descriptor is read, not detached
fizzHandshakeAttemptFallback_noDetach ==
  /\ pc = "idle"
  /\ modern = "accepting"
  /\ rd >= 1
  /\ modern' = "notified"
  /\ clientHello' = Some(SubSeq(wire, 1, rd))
  /\ hist' = [hist EXCEPT !.reported = "fizzHandshakeAttemptFallback",
                          !.hello = Some(SubSeq(wire, 1, rd)),
                          !.modernFd = fdOf["modern"],
                          !.fallbackAt = Some(now)]
  /\ fd' = fdOf["modern"]
  /\ Touch
  /\ pc' = "fizzHandshakeAttemptFallback_reset"
  /\ UNCHANGED <<alive, helperVars, ex, now, wire, rd, fdOf, closed, classic,
                 modernRaw, preReceived, classicIn, handed, cb, calls>>

\* entry with the bytes AsyncFizzServer has read; the descriptor is detached
\* from the AsyncSocket under transport_ into the local fd
fizzHandshakeAttemptFallback ==
  /\ pc = "idle"
  /\ modern = "accepting"
  /\ rd >= 1
  /\ modern' = "notified"
  /\ clientHello' = Some(SubSeq(wire, 1, rd))
  /\ hist' = [hist EXCEPT !.reported = "fizzHandshakeAttemptFallback",
                          !.hello = Some(SubSeq(wire, 1, rd)),
                          !.modernFd = fdOf["modern"],
                          !.fallbackAt = Some(now)]
  /\ fd' = fdOf["modern"]
  /\ fdOf' = [fdOf EXCEPT !["local"] = fdOf["modern"], !["modern"] = NoFd]
  /\ calls' = calls \o <<"detachNetworkSocket">>
  /\ Touch
  /\ pc' = "fizzHandshakeAttemptFallback_reset"
  /\ UNCHANGED <<alive, helperVars, ex, now, wire, rd, closed, classic, modernRaw,
                 preReceived, classicIn, handed, cb>>

\* transport_.reset(): the AsyncFizzServer is destroyed and closes what it holds
fizzHandshakeAttemptFallback_reset ==
  /\ pc = "fizzHandshakeAttemptFallback_reset"
  /\ transport_' = NoValue
  /\ modern' = "destroyed"
  /\ closed' = IF fdOf["modern"] # NoFd THEN closed \cup {fdOf["modern"]} ELSE closed
  /\ fdOf' = [fdOf EXCEPT !["modern"] = NoFd]
  /\ calls' = calls \o <<"reset">>
  /\ Touch
  /\ pc' = "fizzHandshakeAttemptFallback_create"
  /\ UNCHANGED <<alive, callback_, sslContext_, extension_, sslSocket_, tinfo_,
                 acceptTime_, sslError_, tokenBindingContext_, loggingCallback_,
                 localVars, now, wire, rd, classic, modernRaw, preReceived, classicIn,
                 handed, cb, hist>>

\* sslSocket_ = createSSLSocket(sslContext_, evb, fd)
fizzHandshakeAttemptFallback_create ==
  /\ pc = "fizzHandshakeAttemptFallback_create"
  /\ sslSocket_' = "ssl"
  /\ classic' = "created"
  /\ fdOf' = createSSLSocket(fdOf, fd)
  /\ calls' = calls \o <<"createSSLSocket">>
  /\ Touch
  /\ pc' = "fizzHandshakeAttemptFallback_seed"
  /\ UNCHANGED <<alive, callback_, sslContext_, extension_, transport_, tinfo_,
                 acceptTime_, sslError_, tokenBindingContext_, loggingCallback_,
                 localVars, now, wire, rd, closed, modern, modernRaw, preReceived,
                 classicIn, handed, cb, hist>>

\* variant of fizzHandshakeAttemptFallback_seed: the buffer is dropped
fizzHandshakeAttemptFallback_seed_dropped ==
  /\ pc = "fizzHandshakeAttemptFallback_seed"
  /\ clientHello' = None
  /\ calls' = calls \o <<"setPreReceivedData">>
  /\ Touch
  /\ pc' = "fizzHandshakeAttemptFallback_accept"
  /\ UNCHANGED <<alive, helperVars, fd, ex, now, wire, rd, fdOf, closed, modern,
                 classic, modernRaw, preReceived, classicIn, handed, cb, hist>>

\* sslSocket_->setPreReceivedData(std::move(clientHello)), then the two flags
fizzHandshakeAttemptFallback_seed ==
  /\ pc = "fizzHandshakeAttemptFallback_seed"
  /\ preReceived' = clientHello
  /\ clientHello' = None
  /\ calls' = calls \o <<"setPreReceivedData">>
  /\ Touch
  /\ pc' = "fizzHandshakeAttemptFallback_accept"
  /\ UNCHANGED <<alive, helperVars, fd, ex, now, wire, rd, fdOf, closed, modern,
                 classic, modernRaw, classicIn, handed, cb, hist>>

\* variant of fizzHandshakeAttemptFallback_accept: sslAccept is never called
fizzHandshakeAttemptFallback_accept_notStarted ==
  /\ pc = "fizzHandshakeAttemptFallback_accept"
  /\ Touch
  /\ pc' = "idle"
  /\ UNCHANGED <<alive, helperVars, localVars, now, engineVars, handed, cb, calls,
                 hist>>

\* variant of fizzHandshakeAttemptFallback_accept: the fallback is also reported
\* to the callback as an error
fizzHandshakeAttemptFallback_accept_reportsError ==
  /\ pc = "fizzHandshakeAttemptFallback_accept"
  /\ classic' = "accepting"
  /\ cb' = [cb EXCEPT !.error = @ + 1]
  /\ calls' = calls \o <<"sslAccept", "connectionError">>
  /\ Touch
  /\ pc' = "idle"
  /\ UNCHANGED <<alive, helperVars, localVars, now, wire, rd, fdOf, closed, modern,
                 modernRaw, preReceived, classicIn, handed, ex, hist>>

\* sslSocket_->sslAccept(this): the last statement
fizzHandshakeAttemptFallback_accept ==
  /\ pc = "fizzHandshakeAttemptFallback_accept"
  /\ classic' = "accepting"
  /\ calls' = calls \o <<"sslAccept">>
  /\ Touch
  /\ pc' = "idle"
  /\ UNCHANGED <<alive, helperVars, localVars, now, wire, rd, fdOf, closed, modern,
                 modernRaw, preReceived, classicIn, handed, cb, hist>>

\* -------------------------------------------------------- handshakeSuc
\* SSLAcceptorHandshakeHelper::fillSSLTransportInfoFields
fillSSLTransportInfoFields(engine, ti) ==
  [ti EXCEPT !.secure = TRUE, !.securityType = getSecurityProtocol(engine)]

\* entry: appProto is read from the socket that reported
handshakeSuc ==
  /\ pc = "idle"
  /\ classic = "accepting"
  /\ classic' = "notified"
  /\ hist' = [hist EXCEPT !.reported = "handshakeSuc", !.notifiedAt = Some(now)]
  /\ pc' = "handshakeSuc_tinfo"
  /\ UNCHANGED <<alive, uaf, helperVars, localVars, now, wire, rd, fdOf, closed,
                 modern, modernRaw, preReceived, classicIn, handed, cb, calls>>

\* variant of handshakeSuc_tinfo: the setup time is measured from the fallback
handshakeSuc_tinfo_fromFallback ==
  /\ pc = "handshakeSuc_tinfo"
  /\ tinfo_' = fillSSLTransportInfoFields("ssl",
                 [tinfo_ EXCEPT !.acceptTime = Some(acceptTime_),
                                !.sslSetupTime =
                                   Some(ToMillis(now - hist.fallbackAt[1]))])
  /\ Touch
  /\ pc' = "handshakeSuc_ready"
  /\ UNCHANGED <<alive, callback_, sslContext_, extension_, transport_, sslSocket_,
                 acceptTime_, sslError_, tokenBindingContext_, loggingCallback_,
                 localVars, now, engineVars, handed, cb, calls, hist>>

\* variant of handshakeSuc_tinfo: the SSL fields are filled from the wrong engine
handshakeSuc_tinfo_wrongEngine ==
  /\ pc = "handshakeSuc_tinfo"
  /\ tinfo_' = fillSSLTransportInfoFields("fizz",
                 [tinfo_ EXCEPT !.acceptTime = Some(acceptTime_),
                                !.sslSetupTime = Some(ToMillis(now - acceptTime_))])
  /\ Touch
  /\ pc' = "handshakeSuc_ready"
  /\ UNCHANGED <<alive, callback_, sslContext_, extension_, transport_, sslSocket_,
                 acceptTime_, sslError_, tokenBindingContext_, loggingCallback_,
                 localVars, now, engineVars, handed, cb, calls, hist>>

\* lines 138-141: acceptTime, sslSetupTime, then the SSL fields
handshakeSuc_tinfo ==
  /\ pc = "handshakeSuc_tinfo"
  /\ tinfo_' = fillSSLTransportInfoFields("ssl",
                 [tinfo_ EXCEPT !.acceptTime = Some(acceptTime_),
                                !.sslSetupTime = Some(ToMillis(now - acceptTime_))])
  /\ Touch
  /\ pc' = "handshakeSuc_ready"
  /\ UNCHANGED <<alive, callback_, sslContext_, extension_, transport_, sslSocket_,
                 acceptTime_, sslError_, tokenBindingContext_, loggingCallback_,
                 localVars, now, engineVars, handed, cb, calls, hist>>

\* callback_->connectionReady(std::move(sslSocket_), ...): the last statement
handshakeSuc_ready ==
  /\ pc = "handshakeSuc_ready"
  /\ Touch
  /\ sslSocket_' = NoValue
  /\ handed' = sslSocket_
  /\ cb' = [cb EXCEPT !.ready = @ + 1, !.tinfo = Some(tinfo_)]
  /\ calls' = calls \o <<"connectionReady">>
  /\ CallbackRuns(transport_, NoValue)
  /\ pc' = "idle"
  /\ UNCHANGED <<callback_, sslContext_, extension_, transport_, tinfo_, acceptTime_,
                 sslError_, tokenBindingContext_, loggingCallback_, localVars, now,
                 wire, rd, modernRaw, preReceived, classicIn, hist>>

\* -------------------------------------------------------- handshakeErr
\* variant of handshakeErr: the count is taken from the Fizz transport
handshakeErr_wrongEngine ==
  /\ pc = "idle"
  /\ classic = "accepting"
  /\ classic' = "notified"
  /\ hist' = [hist EXCEPT !.reported = "handshakeErr", !.notifiedAt = Some(now)]
  /\ ex' = Some([type |-> "SSLException",
                 sslError |-> sslError_,
                 elapsedTime |-> ToMillis(now - acceptTime_),
                 bytesReceived |-> getRawBytesReceived("fizz")])
  /\ Touch
  /\ pc' = "handshakeErr_error"
  /\ UNCHANGED <<alive, helperVars, fd, clientHello, now, wire, rd, fdOf, closed,
                 modern, modernRaw, preReceived, classicIn, handed, cb, calls>>

\* variant of handshakeErr: elapsedTime is measured from the fallback
handshakeErr_fromFallback ==
  /\ pc = "idle"
  /\ classic = "accepting"
  /\ classic' = "notified"
  /\ hist' = [hist EXCEPT !.reported = "handshakeErr", !.notifiedAt = Some(now)]
  /\ ex' = Some([type |-> "SSLException",
                 sslError |-> sslError_,
                 elapsedTime |-> ToMillis(now - hist.fallbackAt[1]),
                 bytesReceived |-> getRawBytesReceived("ssl")])
  /\ Touch
  /\ pc' = "handshakeErr_error"
  /\ UNCHANGED <<alive, helperVars, fd, clientHello, now, wire, rd, fdOf, closed,
                 modern, modernRaw, preReceived, classicIn, handed, cb, calls>>

\* entry: elapsedTime and the SSLException built from it
handshakeErr ==
  /\ pc = "idle"
  /\ classic = "accepting"
  /\ classic' = "notified"
  /\ hist' = [hist EXCEPT !.reported = "handshakeErr", !.notifiedAt = Some(now)]
  /\ ex' = Some([type |-> "SSLException",
                 sslError |-> sslError_,
                 elapsedTime |-> ToMillis(now - acceptTime_),
                 bytesReceived |-> getRawBytesReceived("ssl")])
  /\ Touch
  /\ pc' = "handshakeErr_error"
  /\ UNCHANGED <<alive, helperVars, fd, clientHello, now, wire, rd, fdOf, closed,
                 modern, modernRaw, preReceived, classicIn, handed, cb, calls>>

\* variant of handshakeErr_error: the logging callback is told of the error first
handshakeErr_error_logs ==
  /\ pc = "handshakeErr_error"
  /\ Touch
  /\ cb' = [cb EXCEPT !.error = @ + 1, !.ex = ex]
  /\ ex' = None
  /\ calls' = calls \o (IF loggingCallback_ THEN <<"logFizzHandshakeError">> ELSE <<>>)
                    \o <<"connectionError">>
  /\ CallbackRuns(transport_, sslSocket_)
  /\ pc' = "idle"
  /\ UNCHANGED <<helperVars, fd, clientHello, now, wire, rd, modernRaw, preReceived,
                 classicIn, handed, hist>>

\* callback_->connectionError(sslSocket_.get(), sslEx, sslError_): the last statement
handshakeErr_error ==
  /\ pc = "handshakeErr_error"
  /\ Touch
  /\ cb' = [cb EXCEPT !.error = @ + 1, !.ex = ex]
  /\ ex' = None
  /\ calls' = calls \o <<"connectionError">>
  /\ CallbackRuns(transport_, sslSocket_)
  /\ pc' = "idle"
  /\ UNCHANGED <<helperVars, fd, clientHello, now, wire, rd, modernRaw, preReceived,
                 classicIn, handed, hist>>

Next ==
  \/ Tick
  \/ start
  \/ Destroy
  \/ ModernRead
  \/ ClassicRead
  \/ fizzHandshakeSuccess
  \/ fizzHandshakeSuccess_tinfo
  \/ fizzHandshakeSuccess_ready
  \/ fizzHandshakeError
  \/ fizzHandshakeError_wrap
  \/ fizzHandshakeError_error
  \/ fizzHandshakeAttemptFallback
  \/ fizzHandshakeAttemptFallback_reset
  \/ fizzHandshakeAttemptFallback_create
  \/ fizzHandshakeAttemptFallback_seed
  \/ fizzHandshakeAttemptFallback_accept
  \/ handshakeSuc
  \/ handshakeSuc_tinfo
  \/ handshakeSuc_ready
  \/ handshakeErr
  \/ handshakeErr_error

Spec == Init /\ [][Next]_vars
\* ------------------------------------------------------------ properties
\* the same program when nobody deletes the helper before it completes, with the
\* scheduling the EventBase and the engines guarantee: a running handler runs
\* to its end, and an engine that has been started delivers a notification
ModernNotifies ==
  fizzHandshakeSuccess \/ fizzHandshakeError \/ fizzHandshakeAttemptFallback
ClassicNotifies == handshakeSuc \/ handshakeErr
HandlerContinues ==
  \/ fizzHandshakeSuccess_tinfo
  \/ fizzHandshakeSuccess_ready
  \/ fizzHandshakeError_wrap
  \/ fizzHandshakeError_error
  \/ fizzHandshakeAttemptFallback_reset
  \/ fizzHandshakeAttemptFallback_create
  \/ fizzHandshakeAttemptFallback_seed
  \/ fizzHandshakeAttemptFallback_accept
  \/ handshakeSuc_tinfo
  \/ handshakeSuc_ready
  \/ handshakeErr_error
NextLive ==
  \/ Tick
  \/ start
  \/ ModernRead
  \/ ClassicRead
  \/ ModernNotifies
  \/ ClassicNotifies
  \/ HandlerContinues
LiveSpec ==
  /\ Init
  /\ [][NextLive]_vars
  /\ WF_vars(ModernNotifies)
  /\ WF_vars(ClassicNotifies)
  /\ WF_vars(HandlerContinues)

Count(x) == Cardinality({i \in DOMAIN calls : calls[i] = x})
Called(x) == Count(x) >= 1
IndexOf(x) == CHOOSE i \in DOMAIN calls : calls[i] = x
Live(engine) == engine \notin {"none", "destroyed"}
Completions == cb.ready + cb.error
TerminalReported ==
  hist.reported \in {"fizzHandshakeSuccess", "fizzHandshakeError", "handshakeSuc",
                     "handshakeErr"}
FellBack == hist.hello # None
Replay == IF preReceived = None THEN <<>> ELSE preReceived[1]
\* bytes the OpenSSL engine read off the descriptor itself
ClassicSocketBytes == rd - modernRaw

\* C1: a session whose engine has delivered a terminal notification gets exactly
\* one completion callback, connectionReady for a success and connectionError for
\* an error; no session ever gets two, and none gets one before a terminal
\* notification (a fallback alone completes nothing).
C1_ExactlyOneCompletion ==
  /\ Completions <= 1
  /\ ~TerminalReported => Completions = 0
  /\ (TerminalReported /\ pc = "idle") => Completions = 1
  /\ cb.ready = 1 => hist.reported \in {"fizzHandshakeSuccess", "handshakeSuc"}
  /\ cb.error = 1 => hist.reported \in {"fizzHandshakeError", "handshakeErr"}
  /\ Count("connectionReady") = cb.ready
  /\ Count("connectionError") = cb.error

C1_Witness ==
  /\ FellBack
  /\ hist.reported = "handshakeErr"
  /\ pc = "idle"
  /\ cb.error = 1
  /\ cb.ready = 0

\* C2: at a fallback the bytes installed with setPreReceivedData are the bytes
\* AsyncFizzServer passed to fizzHandshakeAttemptFallback, in order; they are
\* installed once, before sslAccept; and the OpenSSL engine then consumes the
\* client's byte stream without loss, duplication or reordering (what it has
\* consumed, the replay still pending and the unread rest make up the stream).
C2_ReplayExact ==
  /\ Count("setPreReceivedData") <= 1
  /\ pc = "fizzHandshakeAttemptFallback_accept" =>
       /\ preReceived = hist.hello
       /\ clientHello = None
  /\ Called("sslAccept") =>
       /\ Count("setPreReceivedData") = 1
       /\ IndexOf("setPreReceivedData") < IndexOf("sslAccept")
       /\ classicIn \o Replay \o SubSeq(wire, rd + 1, MaxWire) = wire
       /\ Len(classicIn) < Len(hist.hello[1]) =>
            classicIn \o Replay = hist.hello[1]

C2_Witness ==
  /\ FellBack
  /\ classic = "accepting"
  /\ Len(classicIn) > Len(hist.hello[1])
  /\ preReceived = None

\* C3: the AsyncSSLSocket built at a fallback owns the descriptor value the
\* AsyncFizzServer held when it asked for the fallback, and that descriptor has
\* not been closed on the way (it is closed only when the new socket dies).
C3_SameDescriptor ==
  /\ (Called("createSSLSocket") /\ classic # "destroyed") =>
       /\ fdOf["classic"] = hist.modernFd
       /\ hist.modernFd \in Fds
  /\ (FellBack /\ classic # "destroyed") => hist.modernFd \notin closed

C3_Witness ==
  /\ classic = "accepting"
  /\ modern = "destroyed"
  /\ fdOf["classic"] = hist.modernFd
  /\ hist.modernFd = hist.sockFd
  /\ closed = {}

\* C4: never two live engines; from start() on, while the helper lives, exactly
\* one object owns the accepted descriptor (a live engine, or the helper's local
\* fd during the fallback handler), and the descriptor is open.
C4_SingleOwner ==
  /\ ~(Live(modern) /\ Live(classic))
  /\ (callback_ # NoValue /\ alive) =>
       /\ Cardinality({h \in Holders : fdOf[h] = hist.sockFd}) = 1
       /\ \A h \in Holders : fdOf[h] \in {NoFd, hist.sockFd}
       /\ fdOf["sock"] = NoFd
       /\ hist.sockFd \notin closed
       /\ fdOf["modern"] # NoFd => Live(modern)
       /\ fdOf["classic"] # NoFd => Live(classic)

C4_Witness ==
  /\ pc = "fizzHandshakeAttemptFallback_create"
  /\ fdOf["local"] = hist.sockFd
  /\ modern = "destroyed"
  /\ classic = "none"

\* C5: when connectionReady is called, tinfo_.securityType is the protocol of
\* the engine that reported the success and the transport handed over is that
\* engine: Fizz after fizzHandshakeSuccess, TLS after handshakeSuc.
C5_SecurityTypeMatches ==
  cb.ready = 1 =>
    /\ cb.tinfo[1].secure
    /\ hist.reported = "fizzHandshakeSuccess" =>
         /\ cb.tinfo[1].securityType = ModernProto
         /\ handed = "fizz"
         /\ ~FellBack
    /\ hist.reported = "handshakeSuc" =>
         /\ cb.tinfo[1].securityType = ClassicProto
         /\ handed = "ssl"
         /\ FellBack

C5_Witness ==
  /\ cb.ready = 1
  /\ hist.reported = "handshakeSuc"
  /\ cb.tinfo[1].securityType = ClassicProto
\* C6: on every success the sslSetupTime handed over is not negative and is the
\* whole milliseconds between acceptTime_ and the success notification; after a
\* fallback it therefore covers the time the Fizz attempt took.
C6_SetupTimeFromAccept ==
  cb.ready = 1 =>
    LET t == cb.tinfo[1]
        elapsed == hist.notifiedAt[1] - acceptTime_
    IN /\ t.acceptTime = Some(acceptTime_)
       /\ t.sslSetupTime # None
       /\ t.sslSetupTime[1] >= 0
       /\ TicksPerMs * t.sslSetupTime[1] <= elapsed
       /\ elapsed < TicksPerMs * (t.sslSetupTime[1] + 1)
       /\ FellBack =>
            TicksPerMs * t.sslSetupTime[1] > (hist.fallbackAt[1] - acceptTime_) - TicksPerMs

C6_Witness ==
  /\ cb.ready = 1
  /\ FellBack
  /\ hist.fallbackAt[1] >= acceptTime_ + TicksPerMs
  /\ hist.notifiedAt[1] = hist.fallbackAt[1]
  /\ cb.tinfo[1].sslSetupTime[1] >= 1

\* C7: after fizzHandshakeError the callback gets connectionError with a
\* FizzHandshakeException, and no AsyncSSLSocket is built in that session.
C7_ModernErrorNoClassic ==
  hist.reported = "fizzHandshakeError" =>
    /\ classic = "none"
    /\ sslSocket_ = NoValue
    /\ ~Called("createSSLSocket")
    /\ ~Called("sslAccept")
    /\ pc = "idle" =>
         /\ cb.error = 1
         /\ cb.ready = 0
         /\ cb.ex # None
         /\ cb.ex[1].type = "FizzHandshakeException"

C7_Witness ==
  /\ hist.reported = "fizzHandshakeError"
  /\ pc = "idle"
  /\ cb.error = 1
  /\ cb.ex[1].type = "FizzHandshakeException"
  /\ cb.ex[1].bytesReceived >= 1

\* C8 as stated: after a fallback and handshakeErr the count in the exception
\* is the bytes the Fizz attempt consumed plus the bytes the OpenSSL engine read
\* from the socket.
C8_BytesIncludeModernAttempt ==
  (hist.reported = "handshakeErr" /\ pc = "idle") =>
    /\ cb.error = 1
    /\ cb.ex[1].type = "SSLException"
    /\ cb.ex[1].bytesReceived = modernRaw + ClassicSocketBytes

\* C8 amended: after a fallback and handshakeErr the exception is an
\* SSLException whose count is the one the AsyncSSLSocket reports: the replayed
\* bytes it has consumed plus the bytes it read from the socket.  It never
\* exceeds the Fizz attempt's bytes plus the socket bytes, and equals them once
\* the whole replay has been consumed.
C8_BytesReportedByClassicEngine ==
  (hist.reported = "handshakeErr" /\ pc = "idle") =>
    /\ cb.error = 1
    /\ cb.ready = 0
    /\ cb.ex[1].type = "SSLException"
    /\ cb.ex[1].bytesReceived =
         (Len(hist.hello[1]) - Len(Replay)) + ClassicSocketBytes
    /\ cb.ex[1].bytesReceived <= modernRaw + ClassicSocketBytes
    /\ preReceived = None => cb.ex[1].bytesReceived = modernRaw + ClassicSocketBytes

C8_Witness ==
  /\ hist.reported = "handshakeErr"
  /\ pc = "idle"
  /\ preReceived = None
  /\ modernRaw >= 1
  /\ ClassicSocketBytes >= 1
  /\ cb.ex[1].bytesReceived = modernRaw + ClassicSocketBytes

\* C9: no step of a handler touches a member of the helper after the completion
\* callback has been entered: the callback is the last step of its handler, also
\* when it deletes the helper.
C9_CallbackIsLast ==
  /\ ~uaf
  /\ Completions >= 1 => pc = "idle"
  /\ ~alive => pc = "idle"

C9_Witness ==
  /\ ~alive
  /\ cb.ready = 1
  /\ handed = "fizz"
  /\ pc = "idle"
  /\ ~uaf

TinfoWriters == {"fizzHandshakeSuccess_tinfo", "handshakeSuc_tinfo"}

\* C10: tinfo_ is empty until a success handler fills it, only the success
\* handlers' filling steps change it, and nothing changes it once a completion
\* callback has been entered.
C10_TinfoFrozenAfterCallback ==
  /\ [](hist.reported \notin {"fizzHandshakeSuccess", "handshakeSuc"} =>
          tinfo_ = EmptyTinfo)
  /\ [][tinfo_' # tinfo_ => pc \in TinfoWriters]_vars
  /\ [][Completions >= 1 => tinfo_' = tinfo_]_vars

C10_Witness ==
  /\ cb.ready = 1
  /\ tinfo_ # EmptyTinfo
  /\ cb.tinfo = Some(tinfo_)
  /\ tinfo_.sslServerName # None
\* C11 as stated: once a completion callback has run, on success or on failure,
\* the helper owns no transport any more.
C11_HelperOwnsNothingAfterCompletion ==
  (Completions = 1 /\ pc = "idle" /\ alive) =>
    /\ transport_ = NoValue
    /\ sslSocket_ = NoValue

\* C11 amended: connectionReady takes the transport over (the helper holds none
\* afterwards, and the engine outlives the helper with the descriptor open);
\* connectionError is handed no ownership: the helper keeps the failed engine,
\* which holds the descriptor until the helper is deleted and closes it then.
C11_TransportOwnership ==
  /\ cb.ready = 1 =>
       /\ handed = (IF FellBack THEN "ssl" ELSE "fizz")
       /\ transport_ = NoValue
       /\ sslSocket_ = NoValue
       /\ Live(IF FellBack THEN classic ELSE modern)
       /\ fdOf[IF FellBack THEN "classic" ELSE "modern"] = hist.sockFd
       /\ hist.sockFd \notin closed
  /\ cb.error = 1 =>
       /\ handed = NoValue
       /\ ~FellBack => transport_ = "fizz"
       /\ FellBack => sslSocket_ = "ssl"
       /\ alive =>
            /\ Live(IF FellBack THEN classic ELSE modern)
            /\ fdOf[IF FellBack THEN "classic" ELSE "modern"] = hist.sockFd
       /\ ~alive =>
            /\ (IF FellBack THEN classic ELSE modern) = "destroyed"
            /\ hist.sockFd \in closed

C11_Witness ==
  /\ cb.error = 1
  /\ pc = "idle"
  /\ alive
  /\ transport_ = "fizz"
  /\ fdOf["modern"] = hist.sockFd
LogCalls == {"logFizzHandshakeSuccess", "logFizzHandshakeError"}
CompletionCalls == {"connectionReady", "connectionError"}

\* C12: every call to the logging callback comes before the completion callback
\* of the session; with a logging callback set, a Fizz success or error has been
\* logged by the time its completion callback is invoked.
C12_LogBeforeCompletion ==
  /\ \A i, j \in DOMAIN calls :
       (calls[i] \in LogCalls /\ calls[j] \in CompletionCalls) => i < j
  /\ (loggingCallback_ /\ Completions = 1 /\ ~FellBack) =>
       \E i \in DOMAIN calls : calls[i] \in LogCalls

C12_Witness ==
  /\ loggingCallback_
  /\ Called("logFizzHandshakeError")
  /\ cb.error = 1
  /\ IndexOf("logFizzHandshakeError") < IndexOf("connectionError")
\* what a completed session hands to the callback, written from the engines'
\* notifications alone: nothing here reads loggingCallback_ or the log
ExpectedTinfo ==
  IF FellBack
    THEN [acceptTime |-> Some(acceptTime_),
          secure |-> TRUE,
          securityType |-> ClassicProto,
          sslSetupTime |-> Some((hist.notifiedAt[1] - acceptTime_) \div TicksPerMs),
          negotiatedTokenBindingKeyParameters |-> None,
          sslServerName |-> None]
    ELSE [acceptTime |-> Some(acceptTime_),
          secure |-> TRUE,
          securityType |-> ModernProto,
          sslSetupTime |-> Some((hist.notifiedAt[1] - acceptTime_) \div TicksPerMs),
          negotiatedTokenBindingKeyParameters |->
            IF tokenBindingContext_ THEN hist.keyParam ELSE None,
          sslServerName |-> hist.sni]
ExpectedException ==
  [type |-> IF FellBack THEN "SSLException" ELSE "FizzHandshakeException",
   sslError |-> NO_ERROR,
   elapsedTime |-> (hist.notifiedAt[1] - acceptTime_) \div TicksPerMs,
   bytesReceived |-> IF FellBack THEN Len(classicIn) ELSE modernRaw]

DestroyedEarly == ~alive /\ Completions = 0

C15_StartedSessionCompletes ==
  /\ (callback_ # NoValue) ~> (Completions = 1 /\ pc = "idle")
  /\ FellBack ~> Called("sslAccept")
  /\ FellBack ~> (Completions = 1 /\ hist.reported \in {"handshakeSuc", "handshakeErr"})

C15_Witness ==
  /\ FellBack
  /\ modern = "destroyed"
  /\ hist.reported = "handshakeSuc"
  /\ cb.ready = 1
  /\ pc = "idle"
  /\ alive
\* the state of the negotiation; a helper deleted before it completed is in
\* none of them
Phase ==
  IF callback_ = NoValue THEN "Init"
  ELSE IF cb.ready >= 1 THEN "Success"
  ELSE IF cb.error >= 1 THEN "Failure"
  ELSE IF ~alive THEN "Abandoned"
  ELSE IF Called("sslAccept") THEN "AttemptingClassic"
  ELSE IF FellBack \/ Called("createSSLSocket") THEN "FallbackRequested"
  ELSE "AttemptingModern"
PhaseEdges ==
  {<<"Init", "AttemptingModern">>,
   <<"AttemptingModern", "Success">>,
   <<"AttemptingModern", "Failure">>,
   <<"AttemptingModern", "FallbackRequested">>,
   <<"FallbackRequested", "AttemptingClassic">>,
   <<"AttemptingClassic", "Success">>,
   <<"AttemptingClassic", "Failure">>}

TerminalIsFinal ==
  Phase \in {"Success", "Failure"} =>
    /\ Phase' = Phase
    /\ cb' = cb
    /\ calls' = calls
    /\ modern' # "accepting"
    /\ classic' # "accepting"

\* C16: as long as it exists the helper moves only along Init ->
\* AttemptingModern -> {Success, Failure, FallbackRequested -> AttemptingClassic
\* -> {Success, Failure}}; the AsyncSSLSocket is built at most once and only
\* after a fallback notification, the AsyncFizzServer is started once and never
\* again after a fallback, and after a completion callback the helper calls
\* nothing and starts nothing.
C16_StateGraph ==
  /\ [](/\ Count("accept") <= 1
        /\ Count("createSSLSocket") <= 1
        /\ Count("sslAccept") <= 1
        /\ Called("createSSLSocket") => FellBack
        /\ FellBack => modern \in {"notified", "destroyed"})
  /\ [][Phase' # "Abandoned" => (Phase' = Phase \/ <<Phase, Phase'>> \in PhaseEdges)]_vars
  /\ [][TerminalIsFinal]_vars

C16_Witness ==
  /\ Phase = "Failure"
  /\ FellBack
  /\ Count("accept") = 1
  /\ Count("createSSLSocket") = 1
  /\ Count("sslAccept") = 1
  /\ alive
\* the step in which start() stores the callback
StartStep == callback_ = NoValue /\ callback_' # NoValue

StartRecordsAcceptTime == StartStep => acceptTime_' = now

\* C17 as stated: start() records the accept time, so the time the helper
\* measures from is the time of the start() call.
C17_StartRecordsAcceptTime == [][StartRecordsAcceptTime]_vars

StartEffects ==
  StartStep =>
    /\ acceptTime_' = acceptTime_
    /\ callback_' = "callback"
    /\ (extension_' # NoValue) = tokenBindingContext_
    /\ transport_' = "fizz"
    /\ sslSocket_' = NoValue
    /\ modern' = "accepting"
    /\ classic' = "none"
    /\ calls' = calls \o <<"accept">>
    /\ fdOf["sock"] \in Fds
    /\ fdOf'["modern"] = fdOf["sock"]
    /\ \A h \in Holders \ {"modern"} : fdOf'[h] = NoFd
    /\ closed' = closed
    /\ cb' = EmptyCb
    /\ tinfo_' = tinfo_
    /\ pc' = "idle"

\* C17 amended: start() stores the callback, builds the AsyncFizzServer on the
\* given socket and starts it with accept(this); acceptTime_ is the one given
\* when the helper was built and start() leaves it as it is.  When start()
\* returns the AsyncFizzServer owns the descriptor, the accepted socket and the
\* helper hold none, and no completion callback has been invoked.
C17_StartEffects == [][StartEffects]_vars

C17_Witness ==
  /\ callback_ # NoValue
  /\ modern = "accepting"
  /\ rd = 0
  /\ calls = <<"accept">>
  /\ fdOf["modern"] \in Fds
  /\ now > acceptTime_
  /\ cb = EmptyCb
  /\ alive
ErrorPcs == {"fizzHandshakeError_wrap", "fizzHandshakeError_error", "handshakeErr_error"}
NoEngineAccepting == modern # "accepting" /\ classic # "accepting"

\* C18: every connectionError carries an exception whose elapsedTime is the
\* whole milliseconds between acceptTime_ and the error notification (not the
\* time since the fallback) and whose byte count is the raw count of the engine
\* that failed; from the error notification to the callback no engine is
\* started or left accepting.
C18_ErrorClassification ==
  /\ cb.error = 1 =>
       /\ cb.ex # None
       /\ TicksPerMs * cb.ex[1].elapsedTime <= hist.notifiedAt[1] - acceptTime_
       /\ hist.notifiedAt[1] - acceptTime_ < TicksPerMs * (cb.ex[1].elapsedTime + 1)
       /\ cb.ex[1].type = (IF FellBack THEN "SSLException" ELSE "FizzHandshakeException")
       /\ cb.ex[1].bytesReceived = (IF FellBack THEN Len(classicIn) ELSE modernRaw)
       /\ NoEngineAccepting
       /\ Count("accept") = 1
       /\ Count("createSSLSocket") = (IF FellBack THEN 1 ELSE 0)
       /\ Count("sslAccept") = (IF FellBack THEN 1 ELSE 0)
  /\ pc \in ErrorPcs =>
       /\ NoEngineAccepting
       /\ calls[Len(calls)] \in {"accept", "sslAccept", "logFizzHandshakeError"}

C18_Witness ==
  /\ cb.error = 1
  /\ FellBack
  /\ cb.ex[1].type = "SSLException"
  /\ hist.fallbackAt[1] > acceptTime_
  /\ cb.ex[1].elapsedTime >= 1
  /\ ToMillis(hist.notifiedAt[1] - hist.fallbackAt[1]) < cb.ex[1].elapsedTime
SuccessReported == hist.reported \in {"fizzHandshakeSuccess", "handshakeSuc"}

\* C19: negotiatedTokenBindingKeyParameters is set only by fizzHandshakeSuccess
\* and only to the value the extension negotiated; it is absent when no
\* tokenBindingContext_ was configured, when the extension negotiated nothing
\* and after every OpenSSL success, and a success without it still ends in
\* connectionReady and never in connectionError.
C19_KeyParamOnlyFromFizz ==
  /\ tinfo_.negotiatedTokenBindingKeyParameters # None =>
       /\ hist.reported = "fizzHandshakeSuccess"
       /\ tokenBindingContext_
       /\ extension_ # NoValue
       /\ hist.keyParam # None
       /\ tinfo_.negotiatedTokenBindingKeyParameters = Some(hist.keyParam[1] % 256)
  /\ cb.ready = 1 =>
       /\ cb.tinfo[1].negotiatedTokenBindingKeyParameters =
            tinfo_.negotiatedTokenBindingKeyParameters
       /\ ~tokenBindingContext_ => cb.tinfo[1].negotiatedTokenBindingKeyParameters = None
       /\ hist.keyParam = None => cb.tinfo[1].negotiatedTokenBindingKeyParameters = None
       /\ FellBack => cb.tinfo[1].negotiatedTokenBindingKeyParameters = None
  /\ (SuccessReported /\ pc = "idle") => (cb.ready = 1 /\ cb.error = 0)

C19_Witness ==
  /\ cb.ready = 1
  /\ cb.error = 0
  /\ hist.reported = "fizzHandshakeSuccess"
  /\ tokenBindingContext_
  /\ cb.tinfo[1].negotiatedTokenBindingKeyParameters \in {Some(k) : k \in KeyParams}
FallbackPcs == {"fizzHandshakeAttemptFallback_reset", "fizzHandshakeAttemptFallback_create",
                "fizzHandshakeAttemptFallback_seed", "fizzHandshakeAttemptFallback_accept"}
ClassicPcs == {"handshakeSuc_tinfo", "handshakeSuc_ready", "handshakeErr_error"}

\* C20: the fallback handler calls neither connectionReady, connectionError nor
\* the logging callback, and handshakeSuc and handshakeErr never call the
\* logging callback: a session that fell back has no logging call at all, and
\* in any session the logging callback is called at most once, by the Fizz
\* success or error handler for the outcome that handler reports.
C20_FallbackSilent ==
  /\ Count("logFizzHandshakeSuccess") + Count("logFizzHandshakeError") <= 1
  /\ Called("logFizzHandshakeSuccess") =>
       (loggingCallback_ /\ hist.reported = "fizzHandshakeSuccess")
  /\ Called("logFizzHandshakeError") =>
       (loggingCallback_ /\ hist.reported = "fizzHandshakeError")
  /\ FellBack => \A i \in 1..Len(calls) : calls[i] \notin LogCalls
  /\ (pc \in FallbackPcs \/ hist.reported = "fizzHandshakeAttemptFallback") =>
       /\ cb = EmptyCb
       /\ \A i \in 1..Len(calls) : calls[i] \notin LogCalls \cup CompletionCalls
  /\ pc \in ClassicPcs => FellBack

C20_Witness ==
  /\ FellBack
  /\ loggingCallback_
  /\ hist.reported = "handshakeErr"
  /\ cb.error = 1
  /\ Called("connectionError")
  /\ ~Called("logFizzHandshakeError")
====
